---- MODULE Spec2Model ----
(***************************************************************************)
(* A model of the virtual nanocomputer: the instruction set                *)
(* (cpu/instructions.rs), the memory (cpu/memory.rs), the registers        *)
(* (cpu/registers.rs), the fetch-decode-execute loop (cpu/mod.rs) and the  *)
(* assembler (assembler.rs).                                               *)
(*                                                                         *)
(* A Rust panic ends the process: it is modelled as a fault value that the *)
(* operation returns and that the run loop records before it stops.        *)
(***************************************************************************)
EXTENDS Integers, Sequences, FiniteSets, TLC

VARIABLES
    pc,                  \* CPU.pc.data              (u8)
    mdr,                 \* CPU.mdr.data             (u8, the fetch latch)
    cir,                 \* CPU.cir.data             (Option<Instruction>)
    acc,                 \* CPU.acc.data             (u8)
    data_memory,         \* CPU.data_memory          (Memory)
    instruction_memory,  \* CPU.instruction_memory   (Memory)
    running,             \* CPU.running
    overflow_checks,     \* the build: TRUE = overflow checks on (debug profile)
    phase,               \* position of the caller / of the run loop
    fault,               \* the panic that ended the process, or "None"
    sink,                \* bytes the output collaborator has received
    loads,               \* number of load_program calls made
    cycles,              \* number of fetches started since the last start()
    last,                \* history: the operation that made the last step, and its argument
    pre,                 \* history: registers and memories when the current cycle began
    isa,                 \* the call made on Opcode (SpecISA)
    mem,                 \* a Memory object under test (SpecMem)
    mem_call,            \* the last call made on mem, with its outcome (SpecMem)
    asm                  \* the assembler's input and outcome (SpecAsm)

vars == <<pc, mdr, cir, acc, data_memory, instruction_memory, running,
          overflow_checks, phase, fault, sink, loads, cycles, last, pre,
          isa, mem, mem_call, asm>>

cpu_vars == <<pc, mdr, cir, acc, data_memory, instruction_memory, running,
              overflow_checks, phase, fault, sink, loads, cycles, last, pre>>

-----------------------------------------------------------------------------
(* Bounds of the model *)

\* size of the small data memory a CPU may be built with (besides 256)
DataSmall == 16
\* size of the small instruction memory a CPU may be built with (besides 256)
InstrSmall == 18
\* number of load_program calls in a session (SpecSession)
MaxLoads == 2
\* cycles of one start() the model follows
MaxCycles == 130
\* size of the Memory objects under test (SpecMem) is 1..MaxMemSize
MaxMemSize == 3

-----------------------------------------------------------------------------
(* u8 / u16 arithmetic as Rust performs it *)

U8 == 0..255

Ok(v) == [fault |-> "None", value |-> v]
Err(f) == [fault |-> f, value |-> 0]

\* the value n of an arithmetic expression of type u8: in range it is n; out of
\* range the build with overflow checks panics and the build without wraps
u8_checked(n, checks) ==
    IF n \in U8 THEN Ok(n)
    ELSE IF checks THEN Err("Overflow")
    ELSE Ok(n % 256)

\* byte & 0b0000_1111
LowNibble(byte) == byte % 16
\* byte & 0b1111_0000
HighNibble(byte) == byte - (byte % 16)

-----------------------------------------------------------------------------
(* cpu/instructions.rs *)

\* enum Opcode, in declaration order
Opcodes == <<"ADD", "SUB", "MUL", "DIV", "STA", "LDA", "JMP", "JEQ", "JNE",
             "JGT", "JLT", "JZ", "JNZ", "HLT", "INP", "OUT", "DAT">>

OpcodeSet == {Opcodes[i] : i \in 1..Len(Opcodes)}

\* a mutant of Opcode_from_byte: the arms of JZ and JNZ are swapped
Opcode_from_byte_swapped(byte) ==
    CASE byte = 1 -> "ADD" [] byte = 2 -> "SUB" [] byte = 3 -> "MUL"
      [] byte = 4 -> "DIV" [] byte = 5 -> "STA" [] byte = 6 -> "LDA"
      [] byte = 7 -> "JMP" [] byte = 8 -> "JEQ" [] byte = 9 -> "JNE"
      [] byte = 10 -> "JGT" [] byte = 11 -> "JLT" [] byte = 12 -> "JNZ"
      [] byte = 13 -> "JZ" [] byte = 14 -> "HLT" [] byte = 15 -> "INP"
      [] byte = 16 -> "OUT" [] byte = 17 -> "DAT"
      [] OTHER -> "InvalidOpcode"

\* Opcode::from_byte; "InvalidOpcode" stands for panic!("Invalid opcode")
Opcode_from_byte(byte) ==
    CASE byte = 1 -> "ADD" [] byte = 2 -> "SUB" [] byte = 3 -> "MUL"
      [] byte = 4 -> "DIV" [] byte = 5 -> "STA" [] byte = 6 -> "LDA"
      [] byte = 7 -> "JMP" [] byte = 8 -> "JEQ" [] byte = 9 -> "JNE"
      [] byte = 10 -> "JGT" [] byte = 11 -> "JLT" [] byte = 12 -> "JZ"
      [] byte = 13 -> "JNZ" [] byte = 14 -> "HLT" [] byte = 15 -> "INP"
      [] byte = 16 -> "OUT" [] byte = 17 -> "DAT"
      [] OTHER -> "InvalidOpcode"

\* Opcode::to_bin
Opcode_to_bin(opcode) ==
    CASE opcode = "ADD" -> 1 [] opcode = "SUB" -> 2 [] opcode = "MUL" -> 3
      [] opcode = "DIV" -> 4 [] opcode = "STA" -> 5 [] opcode = "LDA" -> 6
      [] opcode = "JMP" -> 7 [] opcode = "JEQ" -> 8 [] opcode = "JNE" -> 9
      [] opcode = "JGT" -> 10 [] opcode = "JLT" -> 11 [] opcode = "JZ" -> 12
      [] opcode = "JNZ" -> 13 [] opcode = "HLT" -> 14 [] opcode = "INP" -> 15
      [] opcode = "OUT" -> 16 [] opcode = "DAT" -> 17

\* `opcode as u8`: the discriminant of the enum, counted from 0
Opcode_as_u8(opcode) ==
    (CHOOSE i \in 1..Len(Opcodes) : Opcodes[i] = opcode) - 1

\* Instruction::new
Instruction_new(opcode, operand) == [opcode |-> opcode, operand |-> operand]

\* Instruction::from_byte: the opcode from the low nibble of the byte, the
\* operand the byte with its low nibble cleared
Instruction_from_byte(byte) ==
    Instruction_new(Opcode_from_byte(LowNibble(byte)), HighNibble(byte))

\* Instruction::to_bin
Instruction_to_bin(instr) == <<Opcode_to_bin(instr.opcode), instr.operand>>

\* CIR::new: data = None
NoInstruction == [opcode |-> "None", operand |-> 0]

-----------------------------------------------------------------------------
(* cpu/memory.rs *)

\* Memory::new
Memory_new(size) == [size |-> size, data |-> [i \in 0..(size - 1) |-> 0]]

\* Memory::read: indexing the Vec panics when the index is not below its length
Memory_read(m, address) ==
    IF address \in DOMAIN m.data THEN Ok(m.data[address]) ELSE Err("OutOfBounds")

\* Memory::write; the result is the fault and the memory left behind
Memory_write(m, address, value) ==
    IF address \in DOMAIN m.data
    THEN [fault |-> "None", mem |-> [m EXCEPT !.data[address] = value]]
    ELSE [fault |-> "OutOfBounds", mem |-> m]

\* Memory::read_word
Memory_read_word(m, address) ==
    LET byte1 == Memory_read(m, address)
        byte2 == Memory_read(m, address + 1)
    IN  IF byte1.fault # "None" THEN byte1
        ELSE IF byte2.fault # "None" THEN byte2
        ELSE Ok(byte1.value * 256 + byte2.value)

\* Memory::write_word: the high byte is written, then the low byte
Memory_write_word(m, address, value) ==
    LET byte1 == value \div 256
        byte2 == value % 256
        w1 == Memory_write(m, address, byte1)
    IN  IF w1.fault # "None" THEN w1
        ELSE Memory_write(w1.mem, address + 1, byte2)

-----------------------------------------------------------------------------
(* cpu/mod.rs: the steps of the CPU as functions of its state *)

\* a mutant of CPU_fetch: the instruction byte is read from data memory
CPU_fetch_reads_data(p, imem, checks) ==
    LET address == p
        instruction == Memory_read(data_memory, address)
        next == u8_checked(address + 2, checks)
    IN  IF instruction.fault # "None"
        THEN [fault |-> instruction.fault, pc |-> p, mdr |-> mdr]
        ELSE IF next.fault # "None"
        THEN [fault |-> next.fault, pc |-> p, mdr |-> mdr]
        ELSE [fault |-> "None", pc |-> next.value, mdr |-> instruction.value]

\* CPU::fetch: what fetch does to pc and mdr from program counter p. The read
\* comes first, then `address + 2`, then the two register writes
CPU_fetch(p, imem, checks) ==
    LET address == p
        instruction == Memory_read(imem, address)
        next == u8_checked(address + 2, checks)
    IN  IF instruction.fault # "None"
        THEN [fault |-> instruction.fault, pc |-> p, mdr |-> mdr]
        ELSE IF next.fault # "None"
        THEN [fault |-> next.fault, pc |-> p, mdr |-> mdr]
        ELSE [fault |-> "None", pc |-> next.value, mdr |-> instruction.value]

\* CPU::decode with CIR::set: the latch is decoded by Instruction::from_byte
CPU_decode(latch) ==
    LET instruction == Instruction_from_byte(latch)
    IN  IF instruction.opcode = "InvalidOpcode"
        THEN [fault |-> "InvalidOpcode", cir |-> cir]
        ELSE [fault |-> "None", cir |-> instruction]

\* what one execute leaves behind: the fault, and the state it can change
Effect == [fault |-> "None", acc |-> acc, pc |-> pc, running |-> running,
           data_memory |-> data_memory, sink |-> sink]

Faulted(f) == [Effect EXCEPT !.fault = f]

\* the end of an arithmetic opcode: ACC <- n, the exact result of the operation
Arith(n) ==
    LET result == u8_checked(n, overflow_checks)
    IN  IF result.fault # "None" THEN Faulted(result.fault)
        ELSE [Effect EXCEPT !.acc = result.value]

\* Opcode::ADD
ExecADD(operand_addr) ==
    LET operand == Memory_read(data_memory, operand_addr)
    IN  IF operand.fault # "None" THEN Faulted(operand.fault)
        ELSE Arith(acc + operand.value)

\* Opcode::SUB
ExecSUB(operand_addr) ==
    LET operand == Memory_read(data_memory, operand_addr)
    IN  IF operand.fault # "None" THEN Faulted(operand.fault)
        ELSE Arith(acc - operand.value)

\* Opcode::MUL
ExecMUL(operand_addr) ==
    LET operand == Memory_read(data_memory, operand_addr)
    IN  IF operand.fault # "None" THEN Faulted(operand.fault)
        ELSE Arith(acc * operand.value)

\* a mutant of ExecDIV: a zero divisor clears ACC instead of faulting
ExecDIV_zero_clears(operand_addr) ==
    LET operand == Memory_read(data_memory, operand_addr)
    IN  IF operand.fault # "None" THEN Faulted(operand.fault)
        ELSE IF operand.value = 0 THEN [Effect EXCEPT !.acc = 0]
        ELSE [Effect EXCEPT !.acc = acc \div operand.value]

\* Opcode::DIV: the division of two u8 panics on a zero divisor in every build
ExecDIV(operand_addr) ==
    LET operand == Memory_read(data_memory, operand_addr)
    IN  IF operand.fault # "None" THEN Faulted(operand.fault)
        ELSE IF operand.value = 0 THEN Faulted("DivisionByZero")
        ELSE [Effect EXCEPT !.acc = acc \div operand.value]

\* a mutant of ExecSTA: the store also clears ACC
ExecSTA_clears_acc(operand_addr) ==
    LET w == Memory_write(data_memory, operand_addr, acc)
    IN  IF w.fault # "None" THEN Faulted(w.fault)
        ELSE [Effect EXCEPT !.data_memory = w.mem, !.acc = 0]

\* Opcode::STA
ExecSTA(operand_addr) ==
    LET w == Memory_write(data_memory, operand_addr, acc)
    IN  IF w.fault # "None" THEN Faulted(w.fault)
        ELSE [Effect EXCEPT !.data_memory = w.mem]

\* a mutant of ExecLDA: ACC is cleared before the read that panics
ExecLDA_fault_clears(operand_addr) ==
    LET operand == Memory_read(data_memory, operand_addr)
    IN  IF operand.fault # "None" THEN [Faulted(operand.fault) EXCEPT !.acc = 0]
        ELSE [Effect EXCEPT !.acc = operand.value]

\* Opcode::LDA
ExecLDA(operand_addr) ==
    LET operand == Memory_read(data_memory, operand_addr)
    IN  IF operand.fault # "None" THEN Faulted(operand.fault)
        ELSE [Effect EXCEPT !.acc = operand.value]

\* a mutant of ExecJMP: the jump also clears the running flag
ExecJMP_halts(operand_addr) ==
    [Effect EXCEPT !.pc = operand_addr, !.running = FALSE]

\* Opcode::JMP
ExecJMP(operand_addr) == [Effect EXCEPT !.pc = operand_addr]

\* Opcode::JEQ
ExecJEQ(operand_addr) ==
    IF acc = 0 THEN [Effect EXCEPT !.pc = operand_addr] ELSE Effect

\* Opcode::JNE
ExecJNE(operand_addr) ==
    IF acc # 0 THEN [Effect EXCEPT !.pc = operand_addr] ELSE Effect

\* a mutant of ExecJGT: the test is `acc >= 0`
ExecJGT_always(operand_addr) ==
    IF acc >= 0 THEN [Effect EXCEPT !.pc = operand_addr] ELSE Effect

\* Opcode::JGT
ExecJGT(operand_addr) ==
    IF acc > 0 THEN [Effect EXCEPT !.pc = operand_addr] ELSE Effect

\* a mutant of ExecJLT: ACC is read as a signed byte
ExecJLT_signed(operand_addr) ==
    IF acc >= 128 THEN [Effect EXCEPT !.pc = operand_addr] ELSE Effect

\* Opcode::JLT
ExecJLT(operand_addr) ==
    IF acc < 0 THEN [Effect EXCEPT !.pc = operand_addr] ELSE Effect

\* Opcode::JZ
ExecJZ(operand_addr) ==
    IF acc = 0 THEN [Effect EXCEPT !.pc = operand_addr] ELSE Effect

\* Opcode::JNZ
ExecJNZ(operand_addr) ==
    IF acc # 0 THEN [Effect EXCEPT !.pc = operand_addr] ELSE Effect

\* a mutant of ExecHLT: the flag is left set
ExecHLT_keeps_running == Effect

\* Opcode::HLT
ExecHLT == [Effect EXCEPT !.running = FALSE]

\* CPU::get_input: unimplemented!()
CPU_get_input == Err("NotImplemented")

\* CPU::output: unimplemented!()
CPU_output(data) == [fault |-> "NotImplemented", sink |-> sink]

\* Opcode::INP
ExecINP ==
    LET input == CPU_get_input
    IN  IF input.fault # "None" THEN Faulted(input.fault)
        ELSE [Effect EXCEPT !.acc = input.value]

\* Opcode::OUT
ExecOUT ==
    LET o == CPU_output(acc)
    IN  IF o.fault # "None" THEN Faulted(o.fault)
        ELSE [Effect EXCEPT !.sink = o.sink]

\* Opcode::DAT: the operand is both the address and the value written
ExecDAT(operand_addr) ==
    LET w == Memory_write(data_memory, operand_addr, operand_addr)
    IN  IF w.fault # "None" THEN Faulted(w.fault)
        ELSE [Effect EXCEPT !.data_memory = w.mem]

\* CPU::execute: the match on the instruction register
CPU_execute(instruction) ==
    LET operand_addr == instruction.operand
        opcode == instruction.opcode
    IN  CASE opcode = "None" -> Effect
          [] opcode = "ADD" -> ExecADD(operand_addr)
          [] opcode = "SUB" -> ExecSUB(operand_addr)
          [] opcode = "MUL" -> ExecMUL(operand_addr)
          [] opcode = "DIV" -> ExecDIV(operand_addr)
          [] opcode = "STA" -> ExecSTA(operand_addr)
          [] opcode = "LDA" -> ExecLDA(operand_addr)
          [] opcode = "JMP" -> ExecJMP(operand_addr)
          [] opcode = "JEQ" -> ExecJEQ(operand_addr)
          [] opcode = "JNE" -> ExecJNE(operand_addr)
          [] opcode = "JGT" -> ExecJGT(operand_addr)
          [] opcode = "JLT" -> ExecJLT(operand_addr)
          [] opcode = "JZ" -> ExecJZ(operand_addr)
          [] opcode = "JNZ" -> ExecJNZ(operand_addr)
          [] opcode = "HLT" -> ExecHLT
          [] opcode = "INP" -> ExecINP
          [] opcode = "OUT" -> ExecOUT
          [] opcode = "DAT" -> ExecDAT(operand_addr)

\* CPU::load_program: byte i of the program is written at address i, in order
\* from 0; the first write that falls outside the memory panics (Memory::write)
\* and leaves the earlier ones. Nothing but instruction memory is written
CPU_load_program(imem, program) ==
    [fault |-> IF \A i \in 1..Len(program) : Memory_write(imem, i - 1, program[i]).fault = "None"
               THEN "None" ELSE "OutOfBounds",
     mem |-> [imem EXCEPT !.data =
                [a \in DOMAIN imem.data |->
                    IF a < Len(program) THEN program[a + 1] ELSE imem.data[a]]]]

-----------------------------------------------------------------------------
(* The inputs the caller chooses from *)

\* values the caller puts in ACC before the run (acc is a pub field)
AccValues == {0, 6, 255}
\* cells of data memory the caller writes before the run (data_memory is pub),
\* and the values written; the operand of a decoded instruction is a multiple of 16
DataAddrs == {0, 16}
DataValues == {2, 255}

Zeros(n) == [i \in 1..n |-> 0]

\* one instruction byte b at address 0, HLT at 2 and HLT at 16
OneInstr(b) == <<b, 1, 14, 0>> \o Zeros(12) \o <<14, 0>>

\* the image main.rs aims at: Instruction::to_bin of each instruction
RECURSIVE Binary(_)
Binary(program) ==
    IF program = <<>> THEN <<>>
    ELSE Instruction_to_bin(Head(program)) \o Binary(Tail(program))

\* `opcode operand` followed by HLT
TwoInstr(opcode, operand) ==
    Binary(<<Instruction_new(opcode, operand), Instruction_new("HLT", 0)>>)

\* a program consisting solely of HLT
HltOnly == Binary(<<Instruction_new("HLT", 0)>>)

\* main.rs: LDA 1; ADD 2; OUT; HLT
MainProgram ==
    Binary(<<Instruction_new("LDA", 1), Instruction_new("ADD", 2),
             Instruction_new("OUT", 0), Instruction_new("HLT", 0)>>)

\* 128 times STA 0: a jump-free image that fills a 256-byte instruction memory
AllSTA == [i \in 1..256 |-> IF i % 2 = 1 THEN 5 ELSE 0]

\* JMP 240, and from 240 on eight times STA 0
JumpHigh == <<247, 0>> \o Zeros(238) \o [i \in 1..16 |-> IF i % 2 = 1 THEN 5 ELSE 0]

\* JMP 240, from 240 on seven times STA 0, and JEQ 16 in the last slot (254)
JumpAtEnd ==
    <<247, 0>> \o Zeros(238) \o [i \in 1..14 |-> IF i % 2 = 1 THEN 5 ELSE 0]
    \o <<24, 0>>

FirstBytes == (0..31) \cup {245, 246, 247, 254, 255}

Images ==
    {OneInstr(b) : b \in FirstBytes}
    \cup {TwoInstr(o, 1) : o \in OpcodeSet}
    \cup {HltOnly, MainProgram, AllSTA, JumpHigh, JumpAtEnd}

\* the images of a session that loads more than once
SessionImages == {HltOnly, OneInstr(23), OneInstr(5), TwoInstr("LDA", 1), <<>>}

-----------------------------------------------------------------------------
(* cpu/mod.rs: the CPU as a state machine *)

Snapshot == [pc |-> pc, mdr |-> mdr, cir |-> cir, acc |-> acc,
             data_memory |-> data_memory,
             instruction_memory |-> instruction_memory]

\* the variables of the other specifications, at rest
NoISA == isa = [op |-> "none"]
NoMem == mem = Memory_new(0) /\ mem_call = [op |-> "none"]
NoAsm == asm = [status |-> "none"]

\* CPU::new(data_memory_size, instruction_memory_size)
CPU_new(data_memory_size, instruction_memory_size) ==
    /\ pc = 0
    /\ mdr = 0
    /\ cir = NoInstruction
    /\ acc = 0
    /\ data_memory = Memory_new(data_memory_size)
    /\ instruction_memory = Memory_new(instruction_memory_size)
    /\ running = FALSE
    /\ phase = "idle"
    /\ fault = "None"
    /\ sink = <<>>
    /\ loads = 0
    /\ cycles = 0
    /\ last = [op |-> "new", arg |-> <<>>]
    /\ pre = [pc |-> 0, mdr |-> 0, cir |-> NoInstruction, acc |-> 0,
              data_memory |-> Memory_new(data_memory_size),
              instruction_memory |-> Memory_new(instruction_memory_size)]

Init ==
    /\ overflow_checks \in BOOLEAN
    /\ \E d \in {DataSmall, 256}, i \in {InstrSmall, 256} : CPU_new(d, i)
    /\ NoISA /\ NoMem /\ NoAsm

\* a step of the process that ends in fault f, or goes on at phase next
Outcome(f, next) ==
    IF f # "None" THEN phase' = "panicked" /\ fault' = f
    ELSE phase' = next /\ fault' = fault

\* the caller: cpu.acc.set(value)
AccSet(value) ==
    /\ phase = "idle"
    /\ loads = 0
    /\ acc' = value
    /\ last' = [op |-> "acc.set", arg |-> <<>>]
    /\ UNCHANGED <<pc, mdr, cir, data_memory, instruction_memory, running,
                   overflow_checks, phase, fault, sink, loads, cycles, pre>>
    /\ UNCHANGED <<isa, mem, mem_call, asm>>

\* the caller: cpu.data_memory.write(address, value)
DataWrite(address, value) ==
    /\ phase = "idle"
    /\ loads = 0
    /\ LET w == Memory_write(data_memory, address, value)
       IN  data_memory' = w.mem /\ Outcome(w.fault, "idle")
    /\ last' = [op |-> "data_memory.write", arg |-> <<>>]
    /\ UNCHANGED <<pc, mdr, cir, acc, instruction_memory, running,
                   overflow_checks, sink, loads, cycles, pre>>
    /\ UNCHANGED <<isa, mem, mem_call, asm>>

\* the caller: cpu.load_program(program)
LoadProgram(program) ==
    /\ phase \in {"idle", "halted"}
    /\ LET w == CPU_load_program(instruction_memory, program)
       IN  instruction_memory' = w.mem /\ Outcome(w.fault, "idle")
    /\ loads' = loads + 1
    /\ last' = [op |-> "load_program", arg |-> program]
    /\ UNCHANGED <<pc, mdr, cir, acc, data_memory, running,
                   overflow_checks, sink, cycles, pre>>
    /\ UNCHANGED <<isa, mem, mem_call, asm>>

\* the caller: cpu.start(), up to the first test of the loop
Start ==
    /\ phase \in {"idle", "halted"}
    /\ running' = TRUE
    /\ phase' = "fetch"
    /\ cycles' = 0
    /\ last' = [op |-> "start", arg |-> <<>>]
    /\ UNCHANGED <<pc, mdr, cir, acc, data_memory, instruction_memory,
                   overflow_checks, fault, sink, loads, pre>>
    /\ UNCHANGED <<isa, mem, mem_call, asm>>

\* self.fetch() in the loop of start()
Fetch ==
    /\ phase = "fetch"
    /\ cycles < MaxCycles
    /\ LET f == CPU_fetch(pc, instruction_memory, overflow_checks)
       IN  pc' = f.pc /\ mdr' = f.mdr /\ Outcome(f.fault, "decode")
    /\ cycles' = cycles + 1
    /\ pre' = Snapshot
    /\ last' = [op |-> "fetch", arg |-> <<>>]
    /\ UNCHANGED <<cir, acc, data_memory, instruction_memory, running,
                   overflow_checks, sink, loads>>
    /\ UNCHANGED <<isa, mem, mem_call, asm>>

\* self.decode() in the loop of start()
Decode ==
    /\ phase = "decode"
    /\ LET d == CPU_decode(mdr)
       IN  cir' = d.cir /\ Outcome(d.fault, "execute")
    /\ last' = [op |-> "decode", arg |-> <<>>]
    /\ UNCHANGED <<pc, mdr, acc, data_memory, instruction_memory, running,
                   overflow_checks, sink, loads, cycles, pre>>
    /\ UNCHANGED <<isa, mem, mem_call, asm>>

\* self.execute() in the loop of start(), and the test of `while self.running`
Execute ==
    /\ phase = "execute"
    /\ LET e == CPU_execute(cir)
       IN  /\ acc' = e.acc
           /\ pc' = e.pc
           /\ running' = e.running
           /\ data_memory' = e.data_memory
           /\ sink' = e.sink
           /\ Outcome(e.fault, IF e.running THEN "fetch" ELSE "halted")
    /\ last' = [op |-> "execute", arg |-> <<>>]
    /\ UNCHANGED <<mdr, cir, instruction_memory, overflow_checks, loads,
                   cycles, pre>>
    /\ UNCHANGED <<isa, mem, mem_call, asm>>

Run == Fetch \/ Decode \/ Execute

\* one run: the caller prepares a fresh CPU, loads one image once and starts it
Next ==
    \/ \E v \in AccValues : AccSet(v)
    \/ \E a \in DataAddrs, v \in DataValues : DataWrite(a, v)
    \/ \E program \in Images : loads = 0 /\ LoadProgram(program)
    \/ phase = "idle" /\ Start
    \/ Run

Spec == Init /\ [][Next]_vars

\* a session: the caller loads and starts the same CPU again and again
NextSession ==
    \/ \E program \in SessionImages : loads < MaxLoads /\ LoadProgram(program)
    \/ Start
    \/ Run

SpecSession == Init /\ [][NextSession]_vars

-----------------------------------------------------------------------------
(* Opcode::to_bin and Opcode::from_byte, called on every opcode and byte *)

\* a CPU that is not used
CPU_unused == overflow_checks = TRUE /\ CPU_new(0, 0)

InitISA == isa = [op |-> "none"] /\ NoMem /\ NoAsm /\ CPU_unused

\* opcode.to_bin()
ToBin(opcode) ==
    /\ isa' = [op |-> "to_bin", opcode |-> opcode, byte |-> Opcode_to_bin(opcode)]
    /\ UNCHANGED <<mem, mem_call, asm>>
    /\ UNCHANGED cpu_vars

\* Opcode::from_byte(byte)
FromByte(byte) ==
    /\ isa' = [op |-> "from_byte", opcode |-> Opcode_from_byte(byte), byte |-> byte]
    /\ UNCHANGED <<mem, mem_call, asm>>
    /\ UNCHANGED cpu_vars

\* Opcode::from_byte(opcode.to_bin()), after opcode.to_bin()
RoundTrip ==
    /\ isa.op = "to_bin"
    /\ isa' = [op |-> "round_trip", opcode |-> isa.opcode, byte |-> isa.byte,
               decoded |-> Opcode_from_byte(isa.byte)]
    /\ UNCHANGED <<mem, mem_call, asm>>
    /\ UNCHANGED cpu_vars

NextISA ==
    \/ \E opcode \in OpcodeSet : ToBin(opcode)
    \/ \E byte \in U8 : FromByte(byte)
    \/ RoundTrip

SpecISA == InitISA /\ [][NextISA]_vars

-----------------------------------------------------------------------------
(* The four accessors of Memory, called on small memories *)

\* bytes and words the caller writes
MemValues == {1, 255}
MemWords == {258, 65535}

InitMem ==
    /\ \E size \in 0..MaxMemSize : mem = Memory_new(size)
    /\ mem_call = [op |-> "none"]
    /\ NoISA /\ NoAsm /\ CPU_unused

Called(op, address, value, r, before) ==
    [op |-> op, address |-> address, value |-> value, fault |-> r.fault,
     before |-> before]

\* mem.read(address)
MemRead(address) ==
    /\ mem_call' = [Called("read", address, 0, Memory_read(mem, address), mem)
                      EXCEPT !.value = Memory_read(mem, address).value]
    /\ UNCHANGED <<mem, isa, asm>>
    /\ UNCHANGED cpu_vars

\* mem.write(address, value)
MemWrite(address, value) ==
    /\ LET w == Memory_write(mem, address, value)
       IN  mem' = w.mem /\ mem_call' = Called("write", address, value, w, mem)
    /\ UNCHANGED <<isa, asm>>
    /\ UNCHANGED cpu_vars

\* mem.read_word(address)
MemReadWord(address) ==
    /\ mem_call' = [Called("read_word", address, 0, Memory_read_word(mem, address), mem)
                      EXCEPT !.value = Memory_read_word(mem, address).value]
    /\ UNCHANGED <<mem, isa, asm>>
    /\ UNCHANGED cpu_vars

\* mem.write_word(address, value)
MemWriteWord(address, value) ==
    /\ LET w == Memory_write_word(mem, address, value)
       IN  mem' = w.mem /\ mem_call' = Called("write_word", address, value, w, mem)
    /\ UNCHANGED <<isa, asm>>
    /\ UNCHANGED cpu_vars

NextMem ==
    \E address \in 0..(MaxMemSize + 1) :
        \/ MemRead(address)
        \/ \E value \in MemValues : MemWrite(address, value)
        \/ MemReadWord(address)
        \/ \E value \in MemWords : MemWriteWord(address, value)

SpecMem == InitMem /\ [][NextMem]_vars

-----------------------------------------------------------------------------
(* assembler.rs. A text is a sequence of characters, each a string of length 1 *)

\* the letters and the digits, in the order of their codes
Upper ==
    <<"A", "B", "C", "D", "E", "F", "G", "H", "I", "J", "K", "L", "M",
      "N", "O", "P", "Q", "R", "S", "T", "U", "V", "W", "X", "Y", "Z">>
Lower ==
    <<"a", "b", "c", "d", "e", "f", "g", "h", "i", "j", "k", "l", "m",
      "n", "o", "p", "q", "r", "s", "t", "u", "v", "w", "x", "y", "z">>
Digits == <<"0", "1", "2", "3", "4", "5", "6", "7", "8", "9">>

IndexOf(c, table) == CHOOSE i \in 1..Len(table) : table[i] = c
Within(c, table) == \E i \in 1..Len(table) : table[i] = c

\* `c as u8` for the characters of a source text (ASCII)
Ord(c) ==
    CASE Within(c, Upper) -> 64 + IndexOf(c, Upper)
      [] Within(c, Lower) -> 96 + IndexOf(c, Lower)
      [] Within(c, Digits) -> 47 + IndexOf(c, Digits)
      [] c = "\t" -> 9
      [] c = "\n" -> 10
      [] c = "\r" -> 13
      [] c = " " -> 32
      [] c = "+" -> 43
      [] c = "." -> 46
      [] c = "/" -> 47
      [] c = "_" -> 95

OptNone == [some |-> FALSE]
OptSome(v) == [some |-> TRUE, v |-> v]

\* str::starts_with
starts_with(s, prefix) ==
    Len(s) >= Len(prefix) /\ SubSeq(s, 1, Len(prefix)) = prefix

\* str::replace for a pattern of one or two characters and a replacement of at
\* most one: the matches are taken from the left and do not overlap. Of the
\* places where the pattern occurs, a run of adjacent ones is matched at its
\* first, third, fifth, ... place; a matched place gives the replacement, the
\* place after a two-character match gives nothing
replace(s, from, to) ==
    LET Occurs(i) == i >= 1 /\ i + Len(from) - 1 <= Len(s)
                     /\ SubSeq(s, i, i + Len(from) - 1) = from
        RunStart(i) == CHOOSE j \in 0..(i - 1) :
                          /\ ~Occurs(j)
                          /\ \A k \in (j + 1)..(i - 1) : Occurs(k)
        Matched(i) == Occurs(i) /\ (Len(from) = 1 \/ (i - RunStart(i)) % 2 = 1)
        Piece(i) == IF Matched(i) THEN (IF to = <<>> THEN "" ELSE to[1])
                    ELSE IF Len(from) = 2 /\ Matched(i - 1) THEN ""
                    ELSE s[i]
    IN  SelectSeq([i \in 1..Len(s) |-> Piece(i)], LAMBDA c : c # "")

\* str::split on one character: the pieces between the separators, empty ones too
RECURSIVE split(_, _)
split(s, sep) ==
    IF \A i \in 1..Len(s) : s[i] # sep THEN <<s>>
    ELSE LET i == CHOOSE i \in 1..Len(s) :
                      s[i] = sep /\ \A j \in 1..(i - 1) : s[j] # sep
         IN  <<SubSeq(s, 1, i - 1)>> \o split(SubSeq(s, i + 1, Len(s)), sep)

\* clean_source
clean_source(source) ==
    replace(replace(replace(source, <<"/", "/">>, <<"\n">>),
                    <<" ", " ">>, <<" ">>),
            <<"\r">>, <<>>)

DigitValue(c) == IndexOf(c, Digits) - 1

RECURSIVE Decimal(_)
Decimal(s) ==
    IF s = <<>> THEN 0
    ELSE Decimal(SubSeq(s, 1, Len(s) - 1)) * 10 + DigitValue(s[Len(s)])

\* s.parse::<u8>(): an optional `+`, then one or more decimal digits, at most 255
parse_u8(s) ==
    LET digits == IF s # <<>> /\ Head(s) = "+" THEN Tail(s) ELSE s
    IN  IF digits = <<>> THEN Err("ParseIntError")
        ELSE IF \E i \in 1..Len(digits) : ~Within(digits[i], Digits)
        THEN Err("ParseIntError")
        ELSE IF Decimal(digits) > 255 THEN Err("ParseIntError")
        ELSE Ok(Decimal(digits))

\* the mnemonics of Opcode::from_str
Mnemonic(opcode) ==
    CASE opcode = "ADD" -> <<"A", "D", "D">> []
      opcode = "SUB" -> <<"S", "U", "B">> []
      opcode = "MUL" -> <<"M", "U", "L">> []
      opcode = "DIV" -> <<"D", "I", "V">> []
      opcode = "STA" -> <<"S", "T", "A">> []
      opcode = "LDA" -> <<"L", "D", "A">> []
      opcode = "JMP" -> <<"J", "M", "P">> []
      opcode = "JEQ" -> <<"J", "E", "Q">> []
      opcode = "JNE" -> <<"J", "N", "E">> []
      opcode = "JGT" -> <<"J", "G", "T">> []
      opcode = "JLT" -> <<"J", "L", "T">> []
      opcode = "JZ" -> <<"J", "Z">> []
      opcode = "JNZ" -> <<"J", "N", "Z">> []
      opcode = "HLT" -> <<"H", "L", "T">> []
      opcode = "INP" -> <<"I", "N", "P">> []
      opcode = "OUT" -> <<"O", "U", "T">> []
      opcode = "DAT" -> <<"D", "A", "T">>

\* Opcode::from_str (and s.parse::<Opcode>()): panic!("Invalid opcode") otherwise
Opcode_from_str(s) ==
    IF \E o \in OpcodeSet : Mnemonic(o) = s
    THEN CHOOSE o \in OpcodeSet : Mnemonic(o) = s
    ELSE "InvalidOpcode"

\* the n-th call of parts.next() after the first piece was skipped
NextPart(parts, n) ==
    IF n + 1 <= Len(parts) THEN OptSome(parts[n + 1]) ELSE OptNone

\* the Data arm: LABEL DAT VALUE
DataRecord(parts) ==
    LET label == NextPart(parts, 1)
        text == NextPart(parts, 3)
        operand == IF text.some THEN parse_u8(text.v) ELSE Ok(0)
    IN  [fault |-> operand.fault,
         line |-> [label |-> label,
                   value |-> IF text.some THEN OptSome(operand.value) ELSE OptNone]]

\* the operand of a code record: Value after `0x`, Label otherwise
Operand(s) ==
    IF starts_with(s, <<"0", "x">>)
    THEN LET value == parse_u8(replace(s, <<"0", "x">>, <<>>))
         IN  [fault |-> value.fault, operand |-> [kind |-> "Value", value |-> value.value]]
    ELSE [fault |-> "None", operand |-> [kind |-> "Label", label |-> s]]

\* the Code arm: LABEL OPCODE OPERAND
CodeRecord(parts) ==
    LET label == NextPart(parts, 1)
        mnemonic == NextPart(parts, 2)
        opcode == IF mnemonic.some THEN Opcode_from_str(mnemonic.v) ELSE "None"
        text == NextPart(parts, 3)
        operand == IF text.some THEN Operand(text.v) ELSE [fault |-> "None"]
    IN  [fault |-> IF opcode = "InvalidOpcode" THEN "InvalidOpcode" ELSE operand.fault,
         line |-> [label |-> label,
                   opcode |-> IF mnemonic.some THEN OptSome(opcode) ELSE OptNone,
                   operand |-> IF text.some /\ operand.fault = "None"
                               THEN OptSome(operand.operand) ELSE OptNone]]

\* the body of `for line in lines`, on the state st of the loop
ParseLine(st, raw) ==
    IF raw = <<>> \/ starts_with(raw, <<"/", "/">>) THEN st
    ELSE LET line == clean_source(raw)
         IN  IF starts_with(line, <<".">>)
             THEN IF starts_with(line, <<".", "d", "a", "t", "a">>)
                  THEN [st EXCEPT !.current_section = "Data"]
                  ELSE IF starts_with(line, <<".", "c", "o", "d", "e">>)
                  THEN [st EXCEPT !.current_section = "Code"]
                  ELSE st
             ELSE IF starts_with(line, <<" ">>)
             THEN LET parts == split(line, " ")
                  IN  CASE st.current_section = "Data" ->
                             LET r == DataRecord(parts)
                             IN  IF r.fault # "None" THEN [st EXCEPT !.fault = r.fault]
                                 ELSE [st EXCEPT !.data_section = Append(@, r.line)]
                        [] st.current_section = "Code" ->
                             LET r == CodeRecord(parts)
                             IN  IF r.fault # "None" THEN [st EXCEPT !.fault = r.fault]
                                 ELSE [st EXCEPT !.code_section = Append(@, r.line)]
                        [] st.current_section = "None" ->
                             [st EXCEPT !.fault = "InvalidSection"]
             ELSE st

\* `for line in lines`: the loop ends at the first panic
RECURSIVE ParseLines(_, _)
ParseLines(st, lines) ==
    IF lines = <<>> \/ st.fault # "None" THEN st
    ELSE ParseLines(ParseLine(st, Head(lines)), Tail(lines))

\* the bytes of a text, `c as u8` of each character
Bytes(s) == [i \in 1..Len(s) |-> Ord(s[i])]

\* what a data line adds to the binary: the label's characters, then the value
EmitData(line) ==
    (IF line.label.some THEN Bytes(line.label.v) ELSE <<>>)
    \o (IF line.value.some THEN <<line.value.v>> ELSE <<>>)

\* what a code line adds to the binary: `opcode as u8`, then the operand, a
\* label as its characters
EmitCode(line) ==
    (IF line.opcode.some THEN <<Opcode_as_u8(line.opcode.v)>> ELSE <<>>)
    \o (IF line.operand.some
        THEN IF line.operand.v.kind = "Label" THEN Bytes(line.operand.v.label)
             ELSE <<line.operand.v.value>>
        ELSE <<>>)

RECURSIVE EmitAll(_, _)
EmitAll(lines, data) ==
    IF lines = <<>> THEN <<>>
    ELSE (IF data THEN EmitData(Head(lines)) ELSE EmitCode(Head(lines)))
         \o EmitAll(Tail(lines), data)

\* assemble, on the text of the source file
assemble(text) ==
    LET source == clean_source(text)
        lines == split(source, "\n")
        st == ParseLines([current_section |-> "None", data_section |-> <<>>,
                          code_section |-> <<>>, fault |-> "None"], lines)
    IN  IF st.fault # "None" THEN [fault |-> st.fault, binary |-> <<>>]
        ELSE [fault |-> "None",
              binary |-> EmitAll(st.data_section, TRUE) \o EmitAll(st.code_section, FALSE)]

-----------------------------------------------------------------------------
(* The source texts the assembler is run on *)

Spaces(n) == [i \in 1..n |-> " "]

RECURSIVE Join(_, _)
Join(words, sep) ==
    IF words = <<>> THEN <<>>
    ELSE IF Len(words) = 1 THEN Head(words)
    ELSE Head(words) \o sep \o Join(Tail(words), sep)

\* the lines of a section: each record indented, its fields joined by sep
RECURSIVE Records(_, _, _)
Records(records, indent, sep) ==
    IF records = <<>> THEN <<>>
    ELSE indent \o Join(Head(records), sep) \o <<"\n">>
         \o Records(Tail(records), indent, sep)

\* a source file laid out as the example of assembler.rs: records before any
\* section, `.data` and its records, an empty line, `.code` and its records
Text(layout, program) ==
    Records(program.before, layout.data_indent, layout.data_sep)
    \o <<".", "d", "a", "t", "a", "\n">>
    \o Records(program.data, layout.data_indent, layout.data_sep)
    \o <<"\n">>
    \o <<".", "c", "o", "d", "e", "\n">>
    \o Records(program.code, layout.code_indent, layout.code_sep)

DAT == Mnemonic("DAT")

\* the example of assembler.rs: A = 4, B = 2; LDA A; ADD B; OUT; HLT
Example ==
    [before |-> <<>>,
     data |-> << <<<<"A">>, DAT, <<"4">>>>, <<<<"B">>, DAT, <<"2">>>> >>,
     code |-> << <<Mnemonic("LDA"), <<"A">>>>, <<Mnemonic("ADD"), <<"B">>>>,
                 <<Mnemonic("OUT")>>, <<Mnemonic("HLT")>> >>]

\* HLT alone
HltSource ==
    [before |-> <<>>, data |-> <<>>, code |-> << <<Mnemonic("HLT")>> >>]

\* numeric operands: LDA 0x1; ADD 0x2; HLT
Numeric ==
    [before |-> <<>>,
     data |-> << <<<<"A">>, DAT, <<"4">>>> >>,
     code |-> << <<Mnemonic("LDA"), <<"0", "x", "1">>>>,
                 <<Mnemonic("ADD"), <<"0", "x", "2">>>>, <<Mnemonic("HLT")>> >>]

\* code records that carry a label: GO LDA A; END HLT 0x0
Labelled ==
    [before |-> <<>>,
     data |-> << <<<<"A">>, DAT, <<"4">>>> >>,
     code |-> << <<<<"G", "O">>, Mnemonic("LDA"), <<"A">>>>,
                 <<<<"E", "N", "D">>, Mnemonic("HLT"), <<"0", "x", "0">>>> >>]

\* an operand that names no declared label: JMP X; HLT
Undeclared ==
    [before |-> <<>>, data |-> <<>>,
     code |-> << <<Mnemonic("JMP"), <<"X">>>>, <<Mnemonic("HLT")>> >>]

\* a record ahead of the first section directive
Early ==
    [before |-> << <<Mnemonic("HLT")>> >>, data |-> <<>>,
     code |-> << <<Mnemonic("HLT")>> >>]

\* a label used before its declaration: GO JMP END; END HLT
Forward ==
    [before |-> <<>>, data |-> <<>>,
     code |-> << <<<<"G", "O">>, Mnemonic("JMP"), <<"E", "N", "D">>>>,
                 <<<<"E", "N", "D">>, Mnemonic("HLT")>> >>]

Programs == {Example, HltSource, Numeric, Labelled, Undeclared, Early, Forward}

\* an indentation of 4 or 8 spaces, of one space, or none; fields apart by a
\* space or a tab
Indents == {Spaces(0), Spaces(1), Spaces(4), Spaces(8)}
Separators == {<<" ">>, <<"\t">>}

Layouts ==
    [data_indent : Indents, data_sep : Separators,
     code_indent : Indents \ {Spaces(0)}, code_sep : {<<" ">>}]

\* the example, laid out as in the documentation of assembler.rs
DocLayout ==
    [data_indent |-> Spaces(4), data_sep |-> <<"\t">>,
     code_indent |-> Spaces(4), code_sep |-> <<" ">>]

Sources == {Text(layout, program) : layout \in Layouts, program \in Programs}

ExampleSources == {Text(layout, Example) : layout \in Layouts}

-----------------------------------------------------------------------------
(* main.rs: assemble, load_program, start *)

InitAsm ==
    /\ \E source \in Sources : asm = [status |-> "source", source |-> source]
    /\ overflow_checks \in BOOLEAN
    /\ CPU_new(256, 256)
    /\ NoISA /\ NoMem

\* assembler::assemble(source_path), on the text of the file
Assemble ==
    /\ phase = "idle"
    /\ asm.status = "source"
    /\ LET r == assemble(asm.source)
       IN  /\ asm' = [status |-> IF r.fault = "None" THEN "assembled" ELSE "panicked",
                      source |-> asm.source, binary |-> r.binary]
           /\ Outcome(r.fault, "idle")
    /\ last' = [op |-> "assemble", arg |-> <<>>]
    /\ UNCHANGED <<pc, mdr, cir, acc, data_memory, instruction_memory, running,
                   overflow_checks, sink, loads, cycles, pre>>
    /\ UNCHANGED <<isa, mem, mem_call>>

NextAsm ==
    \/ Assemble
    \/ asm.status = "assembled" /\ loads = 0 /\ LoadProgram(asm.binary)
    \/ loads = 1 /\ phase = "idle" /\ Start
    \/ Run

SpecAsm == InitAsm /\ [][NextAsm]_vars

-----------------------------------------------------------------------------
(* The claims *)

\* the steps of the run loop
RunSteps == {"fetch", "decode", "execute"}

\* instruction memory holds exactly the image, from address 0, and zeros after it
ImageIs(image) ==
    /\ Len(image) <= instruction_memory.size
    /\ \A a \in DOMAIN instruction_memory.data :
          instruction_memory.data[a] = IF a < Len(image) THEN image[a + 1] ELSE 0

\* the opcode whose encoding is the byte, if there is one
Matching(byte) ==
    IF \E o \in OpcodeSet : Opcode_to_bin(o) = byte
    THEN CHOOSE o \in OpcodeSet : Opcode_to_bin(o) = byte
    ELSE "InvalidOpcode"

\* the process has ended: start() has returned, or a panic has ended it
Ended == phase \in {"halted", "panicked"}

\* C1: assembling the example, loading the image and starting the CPU ends
\* halted (running = false) with ACC = 6, the sink having received 6 once
C1_ExampleOutputsSix ==
    asm.status # "none" /\ asm.source \in ExampleSources /\ Ended =>
        /\ phase = "halted"
        /\ ~running
        /\ acc = 6
        /\ sink = <<6>>

\* C2: decoding the encoding of an opcode gives the opcode back, and the
\* encoding of an opcode is one of 0x01..0x11 that no other opcode encodes to
\* (17 opcodes, 17 distinct bytes in 1..17: exactly these values, never 0x00)
C2_RoundTrip ==
    /\ isa.op = "round_trip" => isa.decoded = isa.opcode
    /\ isa.op = "to_bin" =>
          /\ isa.byte \in 1..17
          /\ \A o \in OpcodeSet \ {isa.opcode} : Opcode_to_bin(o) # isa.byte
    /\ isa.op = "from_byte" /\ isa.byte \in 1..17 =>
          /\ isa.opcode \in OpcodeSet
          /\ Opcode_to_bin(isa.opcode) = isa.byte

C2_Witness == isa.op = "round_trip" /\ isa.opcode = "DAT" /\ isa.byte = 17

\* C3: the decode step of the cycle fails with InvalidOpcode for every fetched
\* byte outside 0x01..0x11 and gives the opcode that encodes to the byte for
\* every byte inside it, never another opcode
C3_DecodeNeverSubstitutes ==
    last.op = "decode" =>
        IF mdr \in 1..17
        THEN fault = "None" /\ cir.opcode = Matching(mdr)
        ELSE phase = "panicked" /\ fault = "InvalidOpcode"

\* C4: a fetch that starts with pc = p inside instruction memory sets the latch
\* to instruction_memory[p] and pc to p + 2, and changes nothing else
C4_FetchAdvancesByTwo ==
    last.op = "fetch" /\ pre.pc \in DOMAIN pre.instruction_memory.data =>
        /\ mdr = pre.instruction_memory.data[pre.pc]
        /\ pc = pre.pc + 2
        /\ acc = pre.acc
        /\ data_memory = pre.data_memory
        /\ instruction_memory = pre.instruction_memory

\* C5: after the decode of a cycle that fetched a valid opcode byte at p, the
\* instruction register holds the opcode of instruction_memory[p] and, as
\* operand, the byte instruction_memory[p + 1]
C5_OperandIsNextByte ==
    /\ last.op = "decode"
    /\ pre.pc + 1 \in DOMAIN pre.instruction_memory.data
    /\ Matching(pre.instruction_memory.data[pre.pc]) # "InvalidOpcode"
    => /\ fault = "None"
       /\ cir = Instruction_new(Matching(pre.instruction_memory.data[pre.pc]),
                                pre.instruction_memory.data[pre.pc + 1])

\* the exact result of an arithmetic opcode
Exact(opcode, x, y) ==
    CASE opcode = "ADD" -> x + y
      [] opcode = "SUB" -> x - y
      [] opcode = "MUL" -> x * y

\* C6: ADD, SUB and MUL on an operand inside data memory never fault and set
\* ACC to the exact result mod 256
C6_ArithmeticWraps ==
    /\ last.op = "execute"
    /\ cir.opcode \in {"ADD", "SUB", "MUL"}
    /\ cir.operand \in DOMAIN pre.data_memory.data
    => /\ fault = "None"
       /\ acc = Exact(cir.opcode, pre.acc, pre.data_memory.data[cir.operand]) % 256

\* C7: DIV on a cell holding 0 stops the run with DivisionByZero and leaves ACC
\* as it was; on a cell holding v # 0 it sets ACC to the quotient ACC / v
C7_DivByZeroFaults ==
    /\ last.op = "execute"
    /\ cir.opcode = "DIV"
    /\ cir.operand \in DOMAIN pre.data_memory.data
    => LET v == pre.data_memory.data[cir.operand]
       IN  IF v = 0
           THEN /\ phase = "panicked"
                /\ fault = "DivisionByZero"
                /\ acc = pre.acc
                /\ ~ENABLED Run
           ELSE /\ fault = "None"
                /\ acc = pre.acc \div v

C7_Witness ==
    /\ last.op = "execute"
    /\ cir.opcode = "DIV"
    /\ fault = "DivisionByZero"
    /\ pre.acc = 6
    /\ acc = 6

\* the accesses of an out-of-bounds call: addr >= size, or addr + 1 >= size for a word
OutOfRange(call) ==
    IF call.op \in {"read", "write"}
    THEN call.address >= call.before.size
    ELSE call.address + 1 >= call.before.size

\* C8: an out-of-range read, write, read_word or write_word fails with
\* OutOfBounds and leaves every byte of the memory as it was
C8_OutOfBoundsLeavesMemory ==
    mem_call.op # "none" /\ OutOfRange(mem_call) =>
        /\ mem_call.fault = "OutOfBounds"
        /\ mem = mem_call.before

\* the CPU was loaded once with the program that is HLT alone
HltOnlyLoaded == loads = 1 /\ ImageIs(HltOnly)

\* C9 as stated: the run of the HLT-only program ends after one cycle with PC,
\* the latch and ACC as they were before start()
C9_HltOnlyKeepsRegisters ==
    HltOnlyLoaded /\ phase = "halted" =>
        /\ cycles = 1
        /\ pc = pre.pc
        /\ mdr = pre.mdr
        /\ acc = pre.acc

\* C9 as amended: the run of the HLT-only program has no fault, is in its
\* first cycle at every step and is halted after the first execute; ACC is
\* then as before start(), PC is 2 further and the latch holds the HLT byte
C9_HltOnlyOneCycle ==
    HltOnlyLoaded /\ last.op \in RunSteps =>
        /\ fault = "None"
        /\ cycles = 1
        /\ last.op = "execute" =>
              /\ phase = "halted"
              /\ ~running
              /\ acc = pre.acc
              /\ pc = pre.pc + 2
              /\ mdr = Opcode_to_bin("HLT")

C9_Witness ==
    /\ HltOnlyLoaded
    /\ phase = "halted"
    /\ cycles = 1
    /\ pre.pc = 0
    /\ pc = 2

\* C10: after load_program(bytes) returns, instruction memory holds the bytes
\* from address 0, PC is 0 and running is false
C10_LoadResetsPC ==
    last.op = "load_program" /\ fault = "None" =>
        /\ \A i \in 1..Len(last.arg) : instruction_memory.data[i - 1] = last.arg[i]
        /\ pc = 0
        /\ ~running

\* C11: in the run loop the running flag goes from true to false only in the
\* execute step of HLT, and start() returns (the loop exits normally) only
\* from the execute step of HLT
C11_OnlyHltClearsRunning ==
    [][/\ running /\ ~running' => phase = "execute" /\ cir.opcode = "HLT"
       /\ phase # "halted" /\ phase' = "halted" =>
             phase = "execute" /\ cir.opcode = "HLT" /\ ~running']_vars

C11_Witness ==
    /\ phase = "halted"
    /\ ~running
    /\ last.op = "execute"
    /\ cir.opcode = "HLT"
    /\ cycles = 2

\* the faults of the run loop that the design names
ExecutionFaults == {"InvalidOpcode", "OutOfBounds", "DivisionByZero"}

\* C12: once a step of the cycle has raised InvalidOpcode, OutOfBounds or
\* DivisionByZero, no fetch, decode or execute step can run, and ACC, data
\* memory and instruction memory are as they were when the faulting
\* instruction's fetch began
C12_FaultStopsRun ==
    last.op \in RunSteps /\ fault \in ExecutionFaults =>
        /\ phase = "panicked"
        /\ ~ENABLED Run
        /\ acc = pre.acc
        /\ data_memory = pre.data_memory
        /\ instruction_memory = pre.instruction_memory

C12_Witness ==
    /\ last.op = "execute"
    /\ cir.opcode = "LDA"
    /\ fault = "OutOfBounds"
    /\ pre.acc = 6
    /\ acc = 6

\* the jump family, and when a jump of the family is taken with ACC = a
JumpFamily == {"JMP", "JEQ", "JNE", "JGT", "JLT", "JZ", "JNZ"}

Taken(opcode, a) ==
    CASE opcode = "JMP" -> TRUE
      [] opcode \in {"JEQ", "JZ"} -> a = 0
      [] opcode \in {"JNE", "JNZ"} -> a # 0
      [] opcode = "JGT" -> a > 0
      [] OTHER -> FALSE

\* the 8-bit program counter p advanced by one instruction
Advanced(p) == (p + 2) % 256

C13_WitnessLastSlot ==
    /\ last.op = "execute"
    /\ cir.opcode = "JEQ"
    /\ pre.pc = 254
    /\ pre.acc = 6
    /\ pc = 0

\* C19: for every ACC, after the execute of a JLT fetched at p the program
\* counter is p + 2 (in the 8 bits of PC): JLT never jumps
C19_JltNeverJumps ==
    last.op = "execute" /\ cir.opcode = "JLT" =>
        /\ fault = "None"
        /\ pc = Advanced(pre.pc)

C19_Witness ==
    /\ last.op = "execute"
    /\ cir = Instruction_new("JLT", 16)
    /\ pre.acc = 255
    /\ pre.pc = 0
    /\ pc = 2

\* C20: STA on an operand a inside data memory sets data_memory[a] to ACC and
\* leaves ACC and every other cell; LDA on such an operand sets ACC to
\* data_memory[a] and leaves data memory
C20_StoreAndLoad ==
    /\ last.op = "execute"
    /\ cir.opcode \in {"STA", "LDA"}
    /\ cir.operand \in DOMAIN pre.data_memory.data
    => /\ fault = "None"
       /\ cir.opcode = "STA" =>
             /\ data_memory = [pre.data_memory EXCEPT !.data[cir.operand] = pre.acc]
             /\ acc = pre.acc
       /\ cir.opcode = "LDA" =>
             /\ acc = pre.data_memory.data[cir.operand]
             /\ data_memory = pre.data_memory

C20_Witness ==
    /\ last.op = "execute"
    /\ cir = Instruction_new("STA", 0)
    /\ pre.acc = 6
    /\ pre.data_memory.data[0] = 2
    /\ data_memory.size = 256
    /\ data_memory.data[0] = 6
    /\ data_memory.data[16] = 255
    /\ acc = 6

\* the source texts of each program, one per layout
SourceProgram == [program \in Programs |-> {Text(layout, program) : layout \in Layouts}]

\* the source of the run is a text of the program, and assemble has returned an image
Assembled(program) ==
    asm.status = "assembled" /\ asm.source \in SourceProgram[program]

\* the fields of a code record `[LABEL] MNEMONIC [OPERAND]`
HasLabel(record) == Opcode_from_str(record[1]) = "InvalidOpcode"
CodeLabel(record) == IF HasLabel(record) THEN record[1] ELSE <<>>
CodeMnemonic(record) == IF HasLabel(record) THEN record[2] ELSE record[1]
CodeOperand(record) ==
    LET rest == IF HasLabel(record) THEN Tail(record) ELSE record
    IN  IF Len(rest) >= 2 THEN rest[2] ELSE <<>>

\* the bytes an opcode may be emitted as: its encoding, or its discriminant
OpcodeBytes(mnemonic) ==
    {Opcode_to_bin(Opcode_from_str(mnemonic)), Opcode_as_u8(Opcode_from_str(mnemonic))}

\* C14: every code line gives exactly two bytes of the image, the opcode byte
\* first, so in a program without data the image has 2 bytes per code line and
\* the opcode of line k (from 0) is at offset 2k
C14_TwoBytesPerCodeLine ==
    \A program \in Programs :
        Assembled(program) /\ program.data = <<>> =>
            /\ Len(asm.binary) = 2 * Len(program.code)
            /\ \A k \in 1..Len(program.code) :
                  asm.binary[2 * k - 1] \in OpcodeBytes(CodeMnemonic(program.code[k]))

\* an operand written as a label, and the labels a program declares
IsLabel(field) == field # <<>> /\ ~starts_with(field, <<"0", "x">>)
DataLabels(program) == {program.data[i][1] : i \in 1..Len(program.data)}
CodeLabels(program) ==
    {CodeLabel(program.code[k]) : k \in 1..Len(program.code)} \ {<<>>}
UsedLabels(program) ==
    {f \in {CodeOperand(program.code[k]) : k \in 1..Len(program.code)} : IsLabel(f)}

\* the address of a declared label: the offset in the image at which its value
\* or its instruction begins (one byte per data symbol, then two per code line)
LabelAddress(program, label) ==
    IF label \in DataLabels(program)
    THEN (CHOOSE i \in 1..Len(program.data) : program.data[i][1] = label) - 1
    ELSE Len(program.data)
         + 2 * ((CHOOSE k \in 1..Len(program.code) :
                    CodeLabel(program.code[k]) = label) - 1)

\* the codes of the characters of the labels of a program
LabelCharacters(program) ==
    UNION {{Ord(label[i]) : i \in 1..Len(label)} :
              label \in DataLabels(program) \cup CodeLabels(program)
                        \cup UsedLabels(program)}

\* C15: in the image, the operand of every code line that names a declared
\* label is the address of the label, next to the line's opcode byte, whether
\* the label is declared before or after its use, and no byte of the image is
\* a character of a label (the values, opcodes and addresses of the programs
\* are all below the code of any character)
C15_LabelsResolved ==
    \A program \in Programs :
        Assembled(program) =>
            /\ \A k \in 1..Len(program.code) :
                  LET label == CodeOperand(program.code[k])
                  IN  IsLabel(label)
                      /\ label \in DataLabels(program) \cup CodeLabels(program) =>
                          \E i \in 1..(Len(asm.binary) - 1) :
                              /\ asm.binary[i] \in OpcodeBytes(CodeMnemonic(program.code[k]))
                              /\ asm.binary[i + 1] = LabelAddress(program, label)
            /\ \A i \in 1..Len(asm.binary) :
                  asm.binary[i] \notin LabelCharacters(program)

\* C16: assembling the program whose operand names an undeclared label fails
\* with UndefinedLabel and returns no image
C16_UndeclaredLabelFails ==
    /\ asm.status \in {"assembled", "panicked"}
    /\ asm.source \in SourceProgram[Undeclared]
    => /\ asm.status = "panicked"
       /\ fault = "UndefinedLabel"
       /\ asm.binary = <<>>

\* C17: the image begins with the data section, one byte per declared data
\* symbol, its declared value, in the order of declaration
C17_DataSectionIsValues ==
    \A program \in Programs :
        Assembled(program) =>
            /\ Len(asm.binary) >= Len(program.data)
            /\ \A i \in 1..Len(program.data) :
                  asm.binary[i] = Decimal(program.data[i][3])

\* C18: a record ahead of the first section directive makes assemble fail
\* (the code's panic for a record without a section is "Invalid section")
C18_EarlyRecordFails ==
    /\ asm.status \in {"assembled", "panicked"}
    /\ asm.source \in SourceProgram[Early]
    => /\ asm.status = "panicked"
       /\ fault = "InvalidSection"

\* C21: no fetch, decode or execute step changes a byte of instruction memory,
\* and the opcode and operand of every cycle come from instruction memory
\* alone: a fetch that goes on to decode has latched instruction_memory[pc],
\* and a decode that goes on to execute has decoded that same byte
C21_MemoriesAreSeparate ==
    [][/\ phase \in RunSteps => instruction_memory' = instruction_memory
       /\ phase = "fetch" /\ phase' = "decode" =>
             mdr' = instruction_memory.data[pc]
       /\ phase = "decode" /\ phase' = "execute" =>
             cir' = Instruction_from_byte(instruction_memory.data[pre.pc])]_vars

\* STA on the address of the STA itself: the data cell changes, the
\* instruction byte at the same address does not
C21_Witness ==
    /\ last.op = "execute"
    /\ cir = Instruction_new("STA", 0)
    /\ pre.pc = 0
    /\ pre.acc = 6
    /\ data_memory.data[0] = 6
    /\ instruction_memory.data[0] = 5
    /\ instruction_memory = pre.instruction_memory

\* the CPU was loaded once with the program of main.rs: LDA 1; ADD 2; OUT; HLT
MainLoaded == loads = 1 /\ ImageIs(MainProgram)

\* C22: an executed INP does not fault (it sets ACC to the byte supplied), an
\* executed OUT appends the current ACC to the sink and leaves ACC, and the
\* run of LDA 1; ADD 2; OUT; HLT, which has one OUT, ends with one byte emitted
C22_OneBytePerInpAndOut ==
    /\ last.op = "execute" /\ cir.opcode = "INP" => fault = "None"
    /\ last.op = "execute" /\ cir.opcode = "OUT" =>
          /\ fault = "None"
          /\ acc = pre.acc
          /\ sink # <<>>
          /\ sink[Len(sink)] = acc
    /\ MainLoaded /\ Ended => Len(sink) = 1

\* no byte at an instruction address of instruction memory decodes to a jump
JumpFree ==
    \A a \in DOMAIN instruction_memory.data :
        a % 2 = 0 =>
            Instruction_from_byte(instruction_memory.data[a]).opcode \notin JumpFamily

\* C23: in the run of a jump-free image no cycle beyond the
\* instruction_memory.size / 2 first ones gets as far as its execute step
C23_JumpFreeRunIsBounded ==
    /\ phase = "execute"
    /\ cycles > instruction_memory.size \div 2
    => ~JumpFree

\* C24: at every fetch from a 256-byte instruction memory, started with
\* pc = p, p + 2 <= 255
C24_PcNeverOverflows ==
    last.op = "fetch" /\ instruction_memory.size = 256 => pre.pc + 2 <= 255

=============================================================================
